---- MODULE Spec2Model ----
(***************************************************************************)
(* State-machine model of the GitHub autocomplete widget:                  *)
(*   src/src/components/autocomplete.tsx  (useAutocomplete, SearchResults, *)
(*                                         Autocomplete)                   *)
(*   src/src/lib/github.ts                (searchUsers, searchRepositories)*)
(* The query cache behind useQueries is the TanStack Query client the      *)
(* tests construct (autocomplete.test.tsx:41-47): retry off, every other   *)
(* option at its default (staleTime 0, so cached data is stale at once).   *)
(*                                                                         *)
(* One action is one browser event, timer callback or promise settlement   *)
(* together with the re-render and the effects it causes.                  *)
(***************************************************************************)
EXTENDS Integers, Sequences, FiniteSets, TLC

VARIABLES
    query,          \* useState("")              raw input value
    debounced,      \* useDebounceValue(query)   settled value
    timer,          \* ms since the last input change, -1: no timer pending
    selectedIndex,  \* useState(-1)
    focused,        \* useState(false)
    inputFocus,     \* whether the <input> holds DOM focus
    cache,          \* query cache: cache[op][q] is the state of [op, q]
    issued,         \* gateway calls started by the last step
    opened,         \* urls given to window.open by the last step
    arrived,        \* gateway calls whose response the last step delivered
    cleared,        \* index the [fetching] effect of the last step replaced
                    \* by -1 (-1: it replaced none)
    lastEvent,      \* the DOM event the last step dispatched, if any
    mAccounts,      \* merge: account list given to the merge
    mRepos,         \* merge: repository list given to the merge
    mResults,       \* merge: merged list
    mPhase          \* merge: "input" | "merged"

vars == <<query, debounced, timer, selectedIndex, focused, inputFocus, cache,
          issued, opened, arrived, cleared, lastEvent, mAccounts, mRepos,
          mResults, mPhase>>

mergeVars == <<mAccounts, mRepos, mResults, mPhase>>

----------------------------------------------------------------------------
(* Program constants *)

MinQueryLength == 3
DebounceMs == 300
MaxResults == 50
PerPage == 50

(* Bounds of the model *)

\* granularity of the clock, in ms
TickMs == 150
\* merge: names are collation ranks 1..MaxRank
MaxRank == 3
\* merge with missing names: longest account or repository list
MaxMissingLen == 2

----------------------------------------------------------------------------
(* Values *)

\* Query strings are sequences of characters.
QueryStrings ==
    { <<>>, <<"r", "e">>, <<"r", "e", "a">>, <<"r", "e", "a", "c">> }

Ops == {"users", "repos"}

Null == "null"

\* A SearchResult.  name is the string's rank in the collation order that
\* localeCompare implements (0 is the empty string, -1 a missing name).
NoName == -1

UserResult(i, n) ==
    [id |-> i, name |-> n, type |-> "user", url |-> <<"user", i>>]

RepositoryResult(i, n) ==
    [id |-> i, name |-> n, type |-> "repository", url |-> <<"repository", i>>]

\* The one account and the one repository the remote search knows for q;
\* the repository's name collates before the account's.
RemoteUsers(q) == << UserResult(Len(q), 2) >>

RemoteRepos(q) == << RepositoryResult(Len(q), 1) >>

ErrorOf(op) == IF op = "users" THEN "users failed" ELSE "repos failed"

\* A query the cache has never fetched.
NoEntry ==
    [status |-> "pending", fetchStatus |-> "idle", hasData |-> FALSE,
     data |-> <<>>, error |-> Null]

----------------------------------------------------------------------------
(* useAutocomplete: the merge *)

\* String.prototype.localeCompare on collation ranks: negative, 0, positive.
localeCompare(a, b) == IF a < b THEN -1 ELSE IF a > b THEN 1 ELSE 0

\* (a, b) => a.name?.localeCompare(b.name ?? "") ?? 0
compareFn(a, b) ==
    IF a.name = NoName
    THEN 0
    ELSE localeCompare(a.name, IF b.name = NoName THEN 0 ELSE b.name)

\* Array.prototype.sort is stable: an element moves left only past the
\* elements the comparator puts strictly after it.
RECURSIVE InsertSorted(_, _, _)
InsertSorted(s, x, j) ==
    IF j >= 1 /\ compareFn(s[j], x) > 0
    THEN InsertSorted(s, x, j - 1)
    ELSE SubSeq(s, 1, j) \o <<x>> \o SubSeq(s, j + 1, Len(s))

\* acc holds the first Len(acc) elements of arr, sorted.
RECURSIVE SortFrom(_, _)
SortFrom(arr, acc) ==
    IF Len(acc) = Len(arr)
    THEN acc
    ELSE SortFrom(arr, InsertSorted(acc, arr[Len(acc) + 1], Len(acc)))

sort(arr) == SortFrom(arr, <<>>)

\* The order of a sort under a comparator that is not consistent is left to
\* the engine.  V8's binary insertion calls the comparator with the element
\* it inserts first: the element moves left only past the elements the
\* comparator puts it strictly before.
RECURSIVE InsertPivotFirst(_, _, _)
InsertPivotFirst(s, x, j) ==
    IF j >= 1 /\ compareFn(x, s[j]) < 0
    THEN InsertPivotFirst(s, x, j - 1)
    ELSE SubSeq(s, 1, j) \o <<x>> \o SubSeq(s, j + 1, Len(s))

RECURSIVE SortPivotFirstFrom(_, _)
SortPivotFirstFrom(arr, acc) ==
    IF Len(acc) = Len(arr)
    THEN acc
    ELSE SortPivotFirstFrom(arr,
            InsertPivotFirst(acc, arr[Len(acc) + 1], Len(acc)))

sortPivotFirst(arr) == SortPivotFirstFrom(arr, <<>>)

\* Array.prototype.slice(0, n)
slice(arr, n) == SubSeq(arr, 1, IF Len(arr) < n THEN Len(arr) ELSE n)

\* Variant: the concatenation cut without the sort.
MergeUnsorted(users, repositories) == slice(users \o repositories, MaxResults)

\* [...users, ...repositories].sort(...).slice(0, 50)
Merge(users, repositories) == slice(sort(users \o repositories), MaxResults)

\* The same, on an engine that calls the comparator the other way round.
MergePivotFirst(users, repositories) ==
    slice(sortPivotFirst(users \o repositories), MaxResults)

----------------------------------------------------------------------------
(* useAutocomplete: the two queries *)

\* Variant: no gate (the `enabled` option left out).
EnabledAlways(q) == Len(q) >= 0

\* Variant: the gate one character too low.
EnabledFromTwo(q) == Len(q) >= MinQueryLength - 1

\* enabled: query.length >= 3
Enabled(q) == Len(q) >= MinQueryLength

\* usersQuery.data || []
DataOf(e) == IF e.hasData THEN e.data ELSE <<>>

IsFetching(e) == e.fetchStatus = "fetching"

IsLoading(e) == e.fetchStatus = "fetching" /\ e.status = "pending"

\* Variant: the repository error first.
ErrorOrReposFirst(u, r) == IF r.error # Null THEN r.error ELSE u.error

\* usersQuery.error || reposQuery.error
ErrorOr(u, r) == IF u.error # Null THEN u.error ELSE r.error

\* The fields of the value useAutocomplete(q) returns when the cache is c.
ResultsOf(c, q) == Merge(DataOf(c["users"][q]), DataOf(c["repos"][q]))

LoadingOf(c, q) == IsLoading(c["users"][q]) \/ IsLoading(c["repos"][q])

FetchingOf(c, q) == IsFetching(c["users"][q]) \/ IsFetching(c["repos"][q])

ErrorIn(c, q) == ErrorOr(c["users"][q], c["repos"][q])

\* What the current render of Autocomplete reads:
\* const { results, fetching, error } = useAutocomplete(debouncedQuery)
results == ResultsOf(cache, debounced)
fetching == FetchingOf(cache, debounced)
loading == LoadingOf(cache, debounced)
error == ErrorIn(cache, debounced)

----------------------------------------------------------------------------
(* SearchResults: what the dropdown renders *)

\* {focused && <SearchResults/>} and not the early "return null"
PanelShown == focused /\ ~(fetching /\ Len(results) = 0)

ShowsError == PanelShown /\ error # Null

ShowsNoResults ==
    PanelShown /\ error = Null /\ Len(debounced) > 3 /\ Len(results) = 0

ShowsRows == PanelShown /\ Len(results) > 0

ShowsTooShort == PanelShown /\ Len(debounced) < 3

\* Rows take pointer events unless the list is "pointer-events-none".
RowsInteractive == ShowsRows /\ ~fetching

----------------------------------------------------------------------------
(* The query cache *)

\* Starting a fetch of a cached query: data is kept; without data the query
\* goes back to pending and drops its error.
FetchStart(e) ==
    IF e.hasData
    THEN [e EXCEPT !.fetchStatus = "fetching"]
    ELSE [e EXCEPT !.fetchStatus = "fetching", !.status = "pending",
                   !.error = Null]

\* Variant: cached data counts as fresh and is not fetched again.
ShouldFetchUnlessCached(c, op, q) ==
    Enabled(q) /\ ~IsFetching(c[op][q]) /\ ~c[op][q].hasData

\* The observers of useQueries move to the key q: an enabled query is
\* fetched (its data, if any, is stale) unless a fetch of it is already in
\* flight.
ShouldFetch(c, op, q) == Enabled(q) /\ ~IsFetching(c[op][q])

Observe(c, q) ==
    [op \in Ops |->
        IF ShouldFetch(c, op, q)
        THEN [c[op] EXCEPT ![q] = FetchStart(c[op][q])]
        ELSE c[op]]

\* The gateway calls that Observe(c, q) starts.
CallsStarted(c, q) ==
    { call \in [op : Ops, q : {q}] : ShouldFetch(c, call.op, q) }

\* searchUsers / searchRepositories: if (!query || query.length < 3)
\* return [] -- no remote read, so nothing else to answer and nothing to fail.
ShortCircuit(q) == Len(q) = 0 \/ Len(q) < 3

----------------------------------------------------------------------------
(* Autocomplete *)

\* Variant: the effect resets only an index that is out of range.
AfterRenderInRange(c, d, sel) ==
    IF fetching # FetchingOf(c, d) /\ ~FetchingOf(c, d)
          /\ sel >= Len(ResultsOf(c, d))
    THEN -1
    ELSE sel

\* useEffect(() => { if (!fetching) setSelectedIndex(-1) }, [fetching]):
\* the index after the render with cache c and debounced query d, when the
\* handler left it at sel.
AfterRender(c, d, sel) ==
    IF fetching # FetchingOf(c, d) /\ ~FetchingOf(c, d)
    THEN -1
    ELSE sel

\* The index that this run of the effect replaces by -1, -1 if none.
ClearedBy(c, d, sel) == IF AfterRender(c, d, sel) # sel THEN sel ELSE -1

Keys == {"ArrowDown", "ArrowUp", "Enter", "Escape"}

\* A DOM event: its type (for a keydown, the key) and, for an event on a
\* result row, the row's position.
Event(type, index) == [type |-> type, index |-> index]

\* Timer callbacks and promise settlements dispatch no DOM event.
NoEvent == Event("none", -1)

\* Variant: the cursor wraps to the first row.
navigateDownWrap(prev, n) == IF prev < n - 1 THEN prev + 1 ELSE 0

\* navigateDown: prev < results.length - 1 ? prev + 1 : prev
navigateDown(prev, n) == IF prev < n - 1 THEN prev + 1 ELSE prev

\* Variant: the floor is the no-selection value.
navigateUpToNone(prev) == IF prev > 0 THEN prev - 1 ELSE -1

\* navigateUp: prev > 0 ? prev - 1 : 0
navigateUp(prev) == IF prev > 0 THEN prev - 1 ELSE 0

\* Variant: the guard without its fetching test.
KeyIgnoredWhenEmpty == Len(results) = 0

\* handleKeyDown: if (!results.length || fetching) return
KeyIgnored == Len(results) = 0 \/ fetching

\* Variant: the lower bound of the test off by one.
CanCommitFromOne(sel, n) == sel > 0 /\ sel < n

\* handleKeyDown, Enter: selectedIndex >= 0 && selectedIndex < results.length
CanCommit(sel, n) == sel >= 0 /\ sel < n

\* Variant: the first result is opened in place of the committed one.
OpenedFirst(result) == << results[1].url >>

\* handleSelectResult: window.open(result.url, "_blank")
OpenedBy(result) == << result.url >>

WidgetInit ==
    /\ query = <<>>
    /\ debounced = <<>>
    /\ timer = -1
    /\ selectedIndex = -1
    /\ focused = FALSE
    /\ inputFocus = FALSE
    /\ cache = [op \in Ops |-> [q \in QueryStrings |-> NoEntry]]
    /\ issued = {}
    /\ opened = <<>>
    /\ arrived = {}
    /\ cleared = -1
    /\ lastEvent = NoEvent

Init ==
    /\ WidgetInit
    /\ mAccounts = <<>>
    /\ mRepos = <<>>
    /\ mResults = <<>>
    /\ mPhase = "off"

\* onFocus={() => setFocused(true)}: the input gains focus from the keyboard.
onFocus ==
    /\ ~inputFocus
    /\ inputFocus' = TRUE
    /\ focused' = TRUE
    /\ issued' = {}
    /\ arrived' = {}
    /\ cleared' = -1
    /\ opened' = <<>>
    /\ lastEvent' = Event("focus", -1)
    /\ UNCHANGED <<query, debounced, timer, selectedIndex, cache, mergeVars>>

\* The input loses focus without a pointer-down (Tab): no handler runs.
Blur ==
    /\ inputFocus
    /\ inputFocus' = FALSE
    /\ issued' = {}
    /\ arrived' = {}
    /\ cleared' = -1
    /\ opened' = <<>>
    /\ lastEvent' = NoEvent
    /\ UNCHANGED <<query, debounced, timer, selectedIndex, focused, cache,
                   mergeVars>>

\* handleQueryChange(value): setQuery(value); useDebounceValue restarts its
\* timer on every new value.
handleQueryChange(value) ==
    /\ inputFocus
    /\ value \in QueryStrings
    /\ value # query
    /\ query' = value
    /\ timer' = 0
    /\ issued' = {}
    /\ arrived' = {}
    /\ cleared' = -1
    /\ opened' = <<>>
    /\ lastEvent' = Event("change", -1)
    /\ UNCHANGED <<debounced, selectedIndex, focused, inputFocus, cache,
                   mergeVars>>

\* Time passes while the debounce timer is pending.
Tick ==
    /\ timer >= 0
    /\ timer < DebounceMs
    /\ timer' = timer + TickMs
    /\ issued' = {}
    /\ arrived' = {}
    /\ cleared' = -1
    /\ opened' = <<>>
    /\ lastEvent' = NoEvent
    /\ UNCHANGED <<query, debounced, selectedIndex, focused, inputFocus,
                   cache, mergeVars>>

\* Variant: no delay.
TimerExpiredAtOnce == timer >= 0

\* The debounce timer may fire once `delay` ms passed since the last change.
TimerExpired == timer >= DebounceMs

\* The debounce timer fires: the debounced value becomes the raw value, the
\* queries move to the new key, the component renders.
Settle ==
    /\ TimerExpired
    /\ timer' = -1
    /\ debounced' = query
    /\ IF query # debounced
       THEN /\ cache' = Observe(cache, query)
            /\ issued' = CallsStarted(cache, query)
       ELSE /\ cache' = cache
            /\ issued' = {}
    /\ selectedIndex' = AfterRender(cache', debounced', selectedIndex)
    /\ cleared' = ClearedBy(cache', debounced', selectedIndex)
    /\ arrived' = {}
    /\ opened' = <<>>
    /\ lastEvent' = NoEvent
    /\ UNCHANGED <<query, focused, inputFocus, mergeVars>>

\* Variant: the response is stored under the current key.
ResolveIntoCurrent(op, q, data) ==
    /\ IsFetching(cache[op][q])
    /\ ShortCircuit(q) => data = <<>>
    /\ cache' = [cache EXCEPT ![op][debounced] =
                    [status |-> "success", fetchStatus |-> "idle",
                     hasData |-> TRUE, data |-> data, error |-> Null]]
    /\ selectedIndex' = AfterRender(cache', debounced, selectedIndex)
    /\ cleared' = ClearedBy(cache', debounced, selectedIndex)
    /\ arrived' = {[op |-> op, q |-> q]}
    /\ issued' = {}
    /\ opened' = <<>>
    /\ lastEvent' = NoEvent
    /\ UNCHANGED <<query, debounced, timer, focused, inputFocus, mergeVars>>

\* A gateway call resolves with data.
Resolve(op, q, data) ==
    /\ IsFetching(cache[op][q])
    /\ ShortCircuit(q) => data = <<>>
    /\ cache' = [cache EXCEPT ![op][q] =
                    [status |-> "success", fetchStatus |-> "idle",
                     hasData |-> TRUE, data |-> data, error |-> Null]]
    /\ selectedIndex' = AfterRender(cache', debounced, selectedIndex)
    /\ cleared' = ClearedBy(cache', debounced, selectedIndex)
    /\ arrived' = {[op |-> op, q |-> q]}
    /\ issued' = {}
    /\ opened' = <<>>
    /\ lastEvent' = NoEvent
    /\ UNCHANGED <<query, debounced, timer, focused, inputFocus, mergeVars>>

\* A gateway call rejects (retry is off): the error is stored, data is kept.
Reject(op, q) ==
    /\ IsFetching(cache[op][q])
    /\ ~ShortCircuit(q)
    /\ cache' = [cache EXCEPT ![op][q] =
                    [@ EXCEPT !.status = "error", !.fetchStatus = "idle",
                              !.error = ErrorOf(op)]]
    /\ selectedIndex' = AfterRender(cache', debounced, selectedIndex)
    /\ cleared' = ClearedBy(cache', debounced, selectedIndex)
    /\ arrived' = {[op |-> op, q |-> q]}
    /\ issued' = {}
    /\ opened' = <<>>
    /\ lastEvent' = NoEvent
    /\ UNCHANGED <<query, debounced, timer, focused, inputFocus, mergeVars>>

\* handleKeyDown(e) on the focused input.
handleKeyDown(key) ==
    /\ inputFocus
    /\ issued' = {}
    /\ arrived' = {}
    /\ cleared' = -1
    /\ IF KeyIgnored
       THEN /\ opened' = <<>>
            /\ UNCHANGED <<selectedIndex, focused, inputFocus>>
       ELSE CASE key = "ArrowDown" ->
                    /\ selectedIndex' =
                          navigateDown(selectedIndex, Len(results))
                    /\ opened' = <<>>
                    /\ UNCHANGED <<focused, inputFocus>>
              [] key = "ArrowUp" ->
                    /\ selectedIndex' = navigateUp(selectedIndex)
                    /\ opened' = <<>>
                    /\ UNCHANGED <<focused, inputFocus>>
              [] key = "Enter" ->
                    IF CanCommit(selectedIndex, Len(results))
                    THEN /\ opened' = OpenedBy(results[selectedIndex + 1])
                         /\ inputFocus' = FALSE
                         /\ UNCHANGED <<selectedIndex, focused>>
                    ELSE /\ opened' = <<>>
                         /\ UNCHANGED <<selectedIndex, focused, inputFocus>>
              [] key = "Escape" ->
                    /\ focused' = FALSE
                    /\ inputFocus' = FALSE
                    /\ opened' = <<>>
                    /\ UNCHANGED selectedIndex
    /\ lastEvent' = Event(key, -1)
    /\ UNCHANGED <<query, debounced, timer, cache, mergeVars>>

\* Variant: the position counted from 1.
handleMouseEnterFromOne(index) ==
    /\ RowsInteractive
    /\ index \in 0 .. Len(results) - 1
    /\ selectedIndex' = index + 1
    /\ issued' = {}
    /\ arrived' = {}
    /\ cleared' = -1
    /\ opened' = <<>>
    /\ lastEvent' = Event("mouseenter", index)
    /\ UNCHANGED <<query, debounced, timer, focused, inputFocus, cache,
                   mergeVars>>

\* handleMouseEnter(index): the pointer enters the row at position index.
handleMouseEnter(index) ==
    /\ RowsInteractive
    /\ index \in 0 .. Len(results) - 1
    /\ selectedIndex' = index
    /\ issued' = {}
    /\ arrived' = {}
    /\ cleared' = -1
    /\ opened' = <<>>
    /\ lastEvent' = Event("mouseenter", index)
    /\ UNCHANGED <<query, debounced, timer, focused, inputFocus, cache,
                   mergeVars>>

\* Variant: the commit also closes the dropdown.
ClickRowCloses(index) ==
    /\ RowsInteractive
    /\ index \in 0 .. Len(results) - 1
    /\ opened' = OpenedBy(results[index + 1])
    /\ inputFocus' = FALSE
    /\ focused' = FALSE
    /\ issued' = {}
    /\ arrived' = {}
    /\ cleared' = -1
    /\ lastEvent' = Event("click", index)
    /\ UNCHANGED <<query, debounced, timer, selectedIndex, cache, mergeVars>>

\* A click on the row at position index: onSelect={() =>
\* onSelectResult(result)}.  The pointer-down is inside the container and
\* takes DOM focus from the input; the handler reads no selectedIndex.
ClickRow(index) ==
    /\ RowsInteractive
    /\ index \in 0 .. Len(results) - 1
    /\ opened' = OpenedBy(results[index + 1])
    /\ inputFocus' = FALSE
    /\ issued' = {}
    /\ arrived' = {}
    /\ cleared' = -1
    /\ lastEvent' = Event("click", index)
    /\ UNCHANGED <<query, debounced, timer, selectedIndex, focused, cache,
                   mergeVars>>

\* The pointer enters, or clicks, one of the rendered rows.
MouseEnterRow == \E index \in 0 .. Len(results) - 1 : handleMouseEnter(index)

ClickSomeRow == \E index \in 0 .. Len(results) - 1 : ClickRow(index)

\* Variant: the containment test without its negation.
handleClickOutsideInverted(contains, f) == IF contains THEN FALSE ELSE f

\* handleClickOutside(event): the value of `focused` after a mousedown whose
\* target the container contains or not, when it was f.
handleClickOutside(contains, f) == IF ~contains THEN FALSE ELSE f

\* A mousedown on the document.  Outside the container and on the panel it
\* takes DOM focus from the input; on the input it gives it, and then
\* onFocus runs.  A mousedown that finds nothing to change is left out: one
\* on the input that has focus, one outside when nothing is focused.
Targets == {"outside", "panel", "input"}

MouseDown(target) ==
    /\ target \in Targets
    /\ target = "panel" => PanelShown
    /\ target = "input" => ~inputFocus
    /\ target = "outside" => focused \/ inputFocus
    /\ focused' =
          IF target = "input" /\ ~inputFocus
          THEN TRUE
          ELSE handleClickOutside(target # "outside", focused)
    /\ inputFocus' = (target = "input")
    /\ issued' = {}
    /\ arrived' = {}
    /\ cleared' = -1
    /\ opened' = <<>>
    /\ lastEvent' = Event("mousedown " \o target, -1)
    /\ UNCHANGED <<query, debounced, timer, selectedIndex, cache, mergeVars>>

\* The steps of the widget when the user enters the strings of `typed`,
\* the remote search answers a call [op, q] with a list of Answers[op][q],
\* and the calls of the operations in `failing` may fail.
NextIn(typed, Answers, failing) ==
    \/ onFocus
    \/ Blur
    \/ \E value \in typed : handleQueryChange(value)
    \/ Tick
    \/ Settle
    \/ \E op \in Ops, q \in QueryStrings :
          \E data \in Answers[op][q] : Resolve(op, q, data)
    \/ \E op \in failing, q \in QueryStrings : Reject(op, q)
    \/ \E key \in Keys : handleKeyDown(key)
    \/ MouseEnterRow
    \/ ClickSomeRow
    \/ \E target \in Targets : MouseDown(target)

\* One searchable string: short and 3-character queries, each call answered
\* with no item or with one, each call may fail.
OneKey == { <<>>, <<"r", "e">>, <<"r", "e", "a">> }

AnyAnswer ==
    [op \in Ops |-> [q \in QueryStrings |->
        IF op = "users" THEN { <<>>, RemoteUsers(q) }
        ELSE { <<>>, RemoteRepos(q) }]]

Next == NextIn(OneKey, AnyAnswer, Ops)

Spec == Init /\ [][Next]_vars

\* Time passes and a due timer fires.
SpecFair == Spec /\ WF_vars(Tick) /\ WF_vars(Settle)

\* Two searchable strings: the remote content is fixed (one account each;
\* a repository for the 3-character string only), account searches may fail.
TwoKeys == { <<>>, <<"r", "e", "a">>, <<"r", "e", "a", "c">> }

FixedAnswer ==
    [op \in Ops |-> [q \in QueryStrings |->
        IF op = "users" THEN { RemoteUsers(q) }
        ELSE IF Len(q) = 3 THEN { RemoteRepos(q) } ELSE { <<>> }]]

NextTwoKeys == NextIn(TwoKeys, FixedAnswer, {"users"})

SpecTwoKeys == Init /\ [][NextTwoKeys]_vars

\* Two searchable strings, the 3-character one matching nothing: both of
\* its calls answer with no item; the 4-character one matches one account.
SparseAnswer ==
    [op \in Ops |-> [q \in QueryStrings |->
        IF Len(q) # 3 /\ op = "users" THEN { RemoteUsers(q) } ELSE { <<>> }]]

NextSparse == NextIn(TwoKeys, SparseAnswer, {"users"})

SpecSparse == Init /\ [][NextSparse]_vars

----------------------------------------------------------------------------
(* The merge as a function of its two inputs.  A gateway list holds at most *)
(* per_page items; its names repeat a seed of one or two ranks.             *)

widgetVars ==
    <<query, debounced, timer, selectedIndex, focused, inputFocus, cache,
      issued, opened, arrived, cleared, lastEvent>>

NameSeeds ==
    { <<a>> : a \in 1 .. MaxRank }
        \cup { <<a, b>> : a \in 1 .. MaxRank, b \in 1 .. MaxRank }

ListLengths == {0, 1, 2, PerPage - 1, PerPage}

NameAt(seed, i) == seed[((i - 1) % Len(seed)) + 1]

AccountLists ==
    { [i \in 1 .. n |-> UserResult(i, NameAt(seed, i))] :
        seed \in NameSeeds, n \in ListLengths }

RepoLists ==
    { [i \in 1 .. n |-> RepositoryResult(i, NameAt(seed, i))] :
        seed \in NameSeeds, n \in ListLengths }

MergeInit ==
    /\ WidgetInit
    /\ mAccounts \in AccountLists
    /\ mRepos \in RepoLists
    /\ mResults = <<>>
    /\ mPhase = "input"

\* const results = [...users, ...repositories].sort(...).slice(0, 50)
DoMerge ==
    /\ mPhase = "input"
    /\ mResults' = Merge(mAccounts, mRepos)
    /\ mPhase' = "merged"
    /\ UNCHANGED <<mAccounts, mRepos, widgetVars>>

MergeNext == DoMerge

MergeSpec == MergeInit /\ [][MergeNext]_vars

\* The merge of short lists in which a name may be missing, on either
\* engine.
MissingNames == {NoName} \cup (1 .. 2)

NameLists == UNION { [1 .. n -> MissingNames] : n \in 0 .. MaxMissingLen }

MergeMissingInit ==
    /\ WidgetInit
    /\ mAccounts \in
          { [i \in 1 .. Len(names) |-> UserResult(i, names[i])] :
              names \in NameLists }
    /\ mRepos \in
          { [i \in 1 .. Len(names) |-> RepositoryResult(i, names[i])] :
              names \in NameLists }
    /\ mResults = <<>>
    /\ mPhase = "input"

DoMergePivotFirst ==
    /\ mPhase = "input"
    /\ mResults' = MergePivotFirst(mAccounts, mRepos)
    /\ mPhase' = "merged"
    /\ UNCHANGED <<mAccounts, mRepos, widgetVars>>

MergeMissingNext == DoMerge \/ DoMergePivotFirst

MergeMissingSpec == MergeMissingInit /\ [][MergeMissingNext]_vars

----------------------------------------------------------------------------
(* Properties *)

Re == <<"r", "e">>
Rea == <<"r", "e", "a">>
Reac == <<"r", "e", "a", "c">>

\* C1: while the debounced query is shorter than 3 characters no gateway
\* call is started or in flight for it, and the focused dropdown shows the
\* "Type at least 3 characters to search" state and nothing else.
C1_ShortQueryNoCall ==
    /\ \A call \in issued : Len(call.q) >= 3
    /\ \A op \in Ops, q \in QueryStrings :
          Len(q) < 3 => ~IsFetching(cache[op][q]) /\ ~cache[op][q].hasData
    /\ Len(debounced) < 3 =>
          /\ issued = {}
          /\ focused =>
                /\ ShowsTooShort
                /\ ~ShowsRows /\ ~ShowsError /\ ~ShowsNoResults

\* A 2-character query has settled after a 3-character one was searched.
C1_Witness ==
    /\ debounced = Re
    /\ timer = -1
    /\ focused
    /\ ShowsTooShort
    /\ cache["users"][Rea].hasData

C3_MergeSortedTruncated ==
    mPhase = "merged" =>
        LET all == mAccounts \o mRepos
            inputs == { all[i] : i \in 1 .. Len(all) }
            kept == { mResults[i] : i \in 1 .. Len(mResults) }
        IN  /\ Len(mResults) = (IF Len(all) < 50 THEN Len(all) ELSE 50)
            /\ kept \subseteq inputs
            /\ Cardinality(kept) = Len(mResults)
            /\ \A i \in 1 .. Len(mResults) - 1 :
                  mResults[i].name <= mResults[i + 1].name
            /\ \A x \in inputs \ kept : \A y \in kept : ~(x.name < y.name)

\* More than 50 entries of both kinds were merged out of their input order.
C3_Witness ==
    /\ mPhase = "merged"
    /\ Len(mAccounts) + Len(mRepos) > 50
    /\ Len(mResults) = 50
    /\ mResults # SubSeq(mAccounts \o mRepos, 1, 50)
    /\ \E i \in 1 .. 50 : mResults[i].type = "repository"
    /\ \E i \in 1 .. 50 : mResults[i].type = "user"

\* C4: over a non-empty list an ArrowDown that is acted on (no fetch in
\* flight) leaves selectedIndex at most results.length - 1; no ArrowDown
\* moves it back or past the last index (at the last index it stays);
\* an ArrowUp that is acted on leaves it at least 0, and no ArrowUp moves
\* it below 0.
C4_KeyboardBounds ==
    [][/\ (lastEvent'.type = "ArrowDown" /\ Len(results) > 0) =>
             /\ ~fetching => selectedIndex' <= Len(results) - 1
             /\ selectedIndex' # selectedIndex =>
                   selectedIndex' <= Len(results) - 1
             /\ selectedIndex' >= selectedIndex
       /\ (lastEvent'.type = "ArrowUp" /\ Len(results) > 0) =>
             /\ ~fetching => selectedIndex' >= 0
             /\ selectedIndex' # selectedIndex => selectedIndex' >= 0]_vars

\* ArrowDown has left the cursor on the last of two rows.
C4_Witness ==
    /\ lastEvent.type = "ArrowDown"
    /\ Len(results) = 2
    /\ selectedIndex = Len(results) - 1

\* C5 (as claimed): a url is opened only while selectedIndex addresses a
\* row, and it is that row's url.
C5_CommitOnlyWhenSelected ==
    opened # <<>> =>
        /\ selectedIndex >= 0
        /\ selectedIndex < Len(results)
        /\ opened = << results[selectedIndex + 1].url >>

\* C5 (amended): only Enter and a click on a row open a url; Enter opens
\* results[selectedIndex].url and only when 0 <= selectedIndex <
\* results.length; a click opens the url of the clicked row, whatever
\* selectedIndex is.
C5_CommitOpensCommitted ==
    /\ opened # <<>> => lastEvent.type \in {"Enter", "click"}
    /\ (opened # <<>> /\ lastEvent.type = "Enter") =>
          /\ selectedIndex >= 0
          /\ selectedIndex < Len(results)
          /\ opened = << results[selectedIndex + 1].url >>
    /\ lastEvent.type = "click" =>
          /\ lastEvent.index \in 0 .. Len(results) - 1
          /\ opened = << results[lastEvent.index + 1].url >>

\* A row was clicked, and its url opened, while no row was selected.
C5_Witness ==
    /\ lastEvent.type = "click"
    /\ selectedIndex = -1
    /\ opened = << results[lastEvent.index + 1].url >>

\* C6 (as claimed): Escape pressed while focused always leaves the widget
\* unfocused with no panel.
C6_EscapeAlwaysDismisses ==
    [][(lastEvent'.type = "Escape" /\ focused) =>
          (~focused' /\ ~PanelShown')]_vars

\* C7: a mousedown outside the container leaves focused false and no panel
\* rendered; one inside the container leaves focused as it was.
C7_OutsidePointerDown ==
    [][/\ lastEvent'.type = "mousedown outside" =>
             (~focused' /\ ~PanelShown')
       /\ (lastEvent'.type \in {"mousedown panel", "mousedown input"}
              /\ focused) => focused']_vars

\* An outside mousedown closed the dropdown while a call was in flight.
C7_Witness ==
    /\ lastEvent.type = "mousedown outside"
    /\ ~focused
    /\ fetching

\* C8 (as claimed): no result rows are rendered together with the error
\* message.
C8_ErrorReplacesRows == ShowsError => ~ShowsRows

\* C9 (as claimed): when both calls for a query of length >= 3 succeeded
\* with no item, the focused dropdown shows the no-results message.
C9_NoResultsMessage ==
    (/\ focused
     /\ Len(debounced) >= 3
     /\ \A op \in Ops :
           /\ cache[op][debounced].status = "success"
           /\ ~IsFetching(cache[op][debounced])
           /\ cache[op][debounced].data = <<>>)
        => ShowsNoResults

\* C10: an input change sets the raw query at once and restarts the timer,
\* leaving the debounced query alone; the debounced query changes only to
\* the raw query, 300 ms after its last change; a call is started only for
\* such a value; and once the raw query stays put the debounced query comes
\* to equal it.
C10_Debounce ==
    /\ [][/\ lastEvent'.type = "change" =>
                (query' # query /\ debounced' = debounced)
          /\ query' # query => (timer' = 0 /\ lastEvent'.type = "change")
          /\ debounced' # debounced =>
                (timer >= 300 /\ query' = query /\ debounced' = query)
          /\ \A call \in issued' : (call.q = query /\ timer >= 300)]_vars
    /\ \A v \in QueryStrings : <>[](query = v) => <>[](debounced = v)

\* A 3-character value is in the input, its timer running, the debounced
\* query still the previous one and no call made for it.
C10_Witness ==
    /\ query = Rea
    /\ debounced = Re
    /\ timer = TickMs
    /\ cache["users"][Rea] = NoEntry

\* C11: a step that takes fetching from true to false leaves selectedIndex
\* at -1, whatever it was.
C11_ResetWhenFetchingEnds ==
    [][(fetching /\ ~fetching') => selectedIndex' = -1]_vars

\* The last call in flight for the current query completed and the effect
\* replaced a selected index by -1.
C11_Witness ==
    /\ arrived # {}
    /\ \A call \in arrived : call.q = debounced
    /\ ~fetching
    /\ cleared >= 0
    /\ selectedIndex = -1

\* C12: a key pressed while the result list is empty or a fetch is in
\* flight changes nothing and has no side effect.
C12_KeysIgnored ==
    [][(lastEvent'.type \in Keys /\ (Len(results) = 0 \/ fetching)) =>
          /\ UNCHANGED <<query, debounced, timer, selectedIndex, focused,
                         inputFocus, cache>>
          /\ opened' = <<>>
          /\ issued' = {}]_vars

\* Escape was pressed over rendered rows while a fetch was in flight and
\* the dropdown is still open.
C12_Witness ==
    /\ lastEvent.type = "Escape"
    /\ fetching
    /\ Len(results) > 0
    /\ focused
    /\ inputFocus

\* C13: a response for a query other than the current debounced one leaves
\* the results, the error, the fetch status and the selection of the current
\* query as they were.
C13_StaleResponseIgnored ==
    [][\A call \in arrived' :
          call.q # debounced =>
              /\ debounced' = debounced
              /\ results' = results
              /\ error' = error
              /\ fetching' = fetching
              /\ loading' = loading
              /\ selectedIndex' = selectedIndex]_vars

\* The account response for the 3-character query arrived while the
\* 4-character query was current and showing its own row.
C13_Witness ==
    /\ arrived = {[op |-> "users", q |-> Rea]}
    /\ debounced = Reac
    /\ cache["users"][Rea].hasData
    /\ results = RemoteUsers(Reac)

\* C14 (as claimed): the result list has rows only once both calls for the
\* current query have a cached result.
C14_NoPartialResults ==
    Len(results) > 0 => \A op \in Ops : cache[op][debounced].hasData

\* C15 (as claimed): the error is the first stored error, the account
\* search's first, and absent while either call is still pending.
C15_ErrorAbsentWhilePending ==
    /\ error = (IF cache["users"][debounced].status = "error"
                THEN ErrorOf("users")
                ELSE IF cache["repos"][debounced].status = "error"
                     THEN ErrorOf("repos")
                     ELSE Null)
    /\ (\E op \in Ops : cache[op][debounced].status = "pending") =>
          error = Null

\* C15 (amended): the error is the first stored error, the account
\* search's first; it is absent exactly while neither call has failed, and
\* so present once one call failed, also while the other is pending.
C15_ErrorFirstNonNull ==
    /\ error = (IF cache["users"][debounced].status = "error"
                THEN ErrorOf("users")
                ELSE IF cache["repos"][debounced].status = "error"
                     THEN ErrorOf("repos")
                     ELSE Null)
    /\ error = Null <=>
          \A op \in Ops : cache[op][debounced].status # "error"

\* The repository search failed while the account search is still pending,
\* and its error is exposed.
C15_Witness ==
    /\ cache["repos"][debounced].status = "error"
    /\ cache["users"][debounced].status = "pending"
    /\ IsFetching(cache["users"][debounced])
    /\ error = ErrorOf("repos")

\* C16 (as claimed): a step that takes focused from true to false leaves
\* selectedIndex at -1.
C16_ResetWhenFocusLost ==
    [][(focused /\ ~focused') => selectedIndex' = -1]_vars

\* C17 (as claimed): selectedIndex is -1 or an index into the current
\* result list.
C17_SelectedIndexValid ==
    /\ selectedIndex >= -1
    /\ selectedIndex <= Len(results) - 1

\* C18 (as claimed): when a fetch of another query has failed and both calls
\* for the current query of length >= 3 succeeded, no error is exposed and
\* the focused dropdown shows rows or the no-results message.
C18_ErrorsQueryScoped ==
    (/\ \E op \in Ops, q \in QueryStrings :
            q # debounced /\ cache[op][q].status = "error"
     /\ Len(debounced) >= 3
     /\ \A op \in Ops :
            /\ cache[op][debounced].status = "success"
            /\ ~IsFetching(cache[op][debounced]))
        => /\ error = Null
           /\ focused => (~ShowsError /\ (ShowsRows \/ ShowsNoResults))

\* C19: a mouseenter on the row at position i leaves selectedIndex at i,
\* for every rendered row; an arrow key that follows moves from i.
C19_HoverSetsIndex ==
    [][/\ lastEvent'.type = "mouseenter" =>
             /\ lastEvent'.index \in 0 .. Len(results) - 1
             /\ selectedIndex' = lastEvent'.index
       /\ (lastEvent.type = "mouseenter" /\ lastEvent'.type = "ArrowDown") =>
             selectedIndex' =
                (IF lastEvent.index < Len(results) - 1
                 THEN lastEvent.index + 1
                 ELSE lastEvent.index)
       /\ (lastEvent.type = "mouseenter" /\ lastEvent'.type = "ArrowUp") =>
             selectedIndex' =
                (IF lastEvent.index > 0 THEN lastEvent.index - 1 ELSE 0)]_vars

\* The pointer entered the second of two rows.
C19_Witness ==
    /\ lastEvent = Event("mouseenter", 1)
    /\ Len(results) = 2
    /\ selectedIndex = 1

\* C20: over a non-empty list with no fetch in flight, ArrowDown takes
\* selectedIndex from p to p + 1 when p < results.length - 1 and leaves it
\* otherwise; ArrowUp takes it to p - 1 when p > 0 and to 0 otherwise.
C20_NavigationStep ==
    [][/\ (lastEvent'.type = "ArrowDown" /\ Len(results) > 0 /\ ~fetching) =>
             selectedIndex' =
                (IF selectedIndex < Len(results) - 1
                 THEN selectedIndex + 1
                 ELSE selectedIndex)
       /\ (lastEvent'.type = "ArrowUp" /\ Len(results) > 0 /\ ~fetching) =>
             selectedIndex' =
                (IF selectedIndex > 0 THEN selectedIndex - 1 ELSE 0)]_vars

\* ArrowUp has left the cursor on the first row of a list at rest.
C20_Witness ==
    /\ lastEvent.type = "ArrowUp"
    /\ Len(results) > 0
    /\ ~fetching
    /\ selectedIndex = 0

\* C21: while the debounced query is shorter than 3 characters the result
\* list is empty, loading and fetching are false and the error is absent,
\* whatever an earlier query of length >= 3 left in the cache.
C21_GateTreatsShortAsNotRun ==
    Len(debounced) < 3 =>
        /\ Len(results) = 0
        /\ ~loading
        /\ ~fetching
        /\ error = Null

\* A 2-character query is current while the 3-character query before it
\* has a failed call and a call still in flight.
C21_Witness ==
    /\ debounced = Re
    /\ timer = -1
    /\ cache["repos"][Rea].status = "error"
    /\ IsFetching(cache["users"][Rea])
    /\ Len(results) = 0

\* C22 (as claimed): the comparator treats a missing name as the empty
\* string, and the merged list is in non-decreasing order of the names so
\* read: entries without a name come before every entry with a non-empty
\* name, whatever the input order.
C22_MissingNameAsEmpty ==
    mPhase = "merged" =>
        LET all == mAccounts \o mRepos
            key(e) == IF e.name = NoName THEN 0 ELSE e.name
        IN  /\ \A i, j \in 1 .. Len(all) :
                  compareFn(all[i], all[j]) =
                      localeCompare(key(all[i]), key(all[j]))
            /\ \A i \in 1 .. Len(mResults) - 1 :
                  key(mResults[i]) <= key(mResults[i + 1])

\* C23: Enter over a non-empty list with no fetch in flight opens the url
\* of results[selectedIndex], once, and takes focus from the input when
\* 0 <= selectedIndex < results.length; with selectedIndex = -1 it opens
\* nothing and changes no state.
C23_EnterCommits ==
    [][(lastEvent'.type = "Enter" /\ Len(results) > 0 /\ ~fetching) =>
          /\ (selectedIndex >= 0 /\ selectedIndex < Len(results)) =>
                /\ opened' = << results[selectedIndex + 1].url >>
                /\ ~inputFocus'
          /\ selectedIndex = -1 =>
                /\ opened' = <<>>
                /\ issued' = {}
                /\ UNCHANGED <<query, debounced, timer, selectedIndex,
                               focused, inputFocus, cache>>]_vars

\* Enter has opened the url of the selected second row and the input has
\* lost focus.
C23_Witness ==
    /\ lastEvent.type = "Enter"
    /\ Len(results) = 2
    /\ selectedIndex = 1
    /\ opened = << results[2].url >>
    /\ ~inputFocus

\* C24: a step that opens a url starts and ends with focused true and
\* leaves selectedIndex, the raw and the debounced query, the timer, the
\* cache and so the rendered results as they were, and starts no call.
C24_CommitFrame ==
    [][opened' # <<>> =>
          /\ focused
          /\ focused'
          /\ PanelShown'
          /\ results' = results
          /\ issued' = {}
          /\ UNCHANGED <<selectedIndex, query, debounced, timer,
                         cache>>]_vars

\* The selected row was clicked: its url is open, the panel still shows the
\* rows and the row is still selected.
C24_Witness ==
    /\ lastEvent.type = "click"
    /\ selectedIndex = lastEvent.index
    /\ opened # <<>>
    /\ focused
    /\ ShowsRows
    /\ ~inputFocus

\* C25 (as claimed): when the last call for a settled query of length >= 3
\* has just completed, fetching is false, selectedIndex is -1 and the
\* focused dropdown shows exactly one of: rows, the no-results message, the
\* error message.  (With no further event this state lasts forever, so it
\* is what "eventually" must deliver.)
C25_SettlesInOnePresentation ==
    (/\ focused
     /\ timer = -1
     /\ query = debounced
     /\ Len(debounced) >= 3
     /\ arrived # {}
     /\ \A call \in arrived : call.q = debounced
     /\ \A op \in Ops :
            /\ cache[op][debounced].status \in {"success", "error"}
            /\ ~IsFetching(cache[op][debounced]))
        => /\ ~fetching
           /\ selectedIndex = -1
           /\ \/ (ShowsRows /\ ~ShowsNoResults /\ ~ShowsError)
              \/ (~ShowsRows /\ ShowsNoResults /\ ~ShowsError)
              \/ (~ShowsRows /\ ~ShowsNoResults /\ ShowsError)

====
